---- MODULE Spec2Model ----
(***************************************************************************)
(* A model of the FreeCell solver: the generic search engine of search.py  *)
(* (_Stack, _Queue, _PriorityQueue, _search, _reconstruct_path) and the    *)
(* FreeCell domain of freecell.py (state, neighbors, auto-play,            *)
(* move_description).                                                      *)
(*                                                                         *)
(* A card is the tuple <<rank, suit>> (Card.tup).  A column is the         *)
(* sequence of its cards, bottom card first (the source concatenates the   *)
(* 2-character card strings; each card is exactly 2 characters, so the     *)
(* string is the sequence of cards and col[-2:] is its last element).      *)
(* A state is [home, free, tab]: home is the 4-tuple of home ranks         *)
(* (home[suit+1] is the source's state[suit]), free the set of free-cell   *)
(* cards, tab the set of columns.                                          *)
(***************************************************************************)
EXTENDS Integers, Sequences, FiniteSets, TLC

(***************************************************************************)
(* Size of the game.  The source plays 13 ranks, 8 columns and 4 free      *)
(* cells (freecell.py:11-13); the model plays the same rules on a smaller  *)
(* deck and board.                                                         *)
(***************************************************************************)
MAX_RANK == 4
MAX_COLS == 2
MAX_FREE_CELLS == 1

Suits == 0..3
Deck == (1..MAX_RANK) \X Suits

rank_int(card) == card[1]
suit_int(card) == card[2]

is_red(suit) == suit \in {0, 1}

\* Card.type
type(card) == <<rank_int(card), is_red(suit_int(card))>>

\* Card.next_type, read only for cards of rank > 1
next_type(card) == <<rank_int(card) - 1, ~is_red(suit_int(card))>>

_opp_color(suit) == {other \in Suits : is_red(other) # is_red(suit)}

_sibling_suit(suit) == CHOOSE other \in Suits : is_red(other) = is_red(suit) /\ other # suit

_next_in_rank(card) == <<rank_int(card) + 1, suit_int(card)>>

Top(col) == col[Len(col)]
Front(col) == SubSeq(col, 1, Len(col) - 1)

\* the last suit is not looked at
is_goal_three_suits(state) == \A suit \in Suits \ {3} : state.home[suit + 1] = MAX_RANK

is_goal(state) == \A suit \in Suits : state.home[suit + 1] = MAX_RANK

\* a column of one card is left as it is
_remove_card_from_col_keeps_last(tableau, col) ==
    IF Front(col) # <<>> THEN (tableau \ {col}) \cup {Front(col)}
    ELSE tableau

_remove_card_from_col(tableau, col) ==
    IF Front(col) # <<>> THEN (tableau \ {col}) \cup {Front(col)}
    ELSE tableau \ {col}

_add_card_to_col(tableau, col, card) == (tableau \ {col}) \cup {Append(col, card)}

_add_card_to_new_col(tableau, card) == tableau \cup {<<card>>}

_add_card_to_free(freecells, card) == freecells \cup {card}

_remove_card_from_free(freecells, card) == freecells \ {card}

\* None is the empty tuple, a home tuple has 4 elements.
_to_home(state, needed_home, card) ==
    IF card \in needed_home
    THEN [state.home EXCEPT ![suit_int(card) + 1] = rank_int(card)]
    ELSE <<>>

\* the rank is lowered twice
_remove_from_home_twice(state, card) ==
    [state.home EXCEPT ![suit_int(card) + 1] = @ - 2]

_remove_from_home(state, card) ==
    [state.home EXCEPT ![suit_int(card) + 1] = @ - 1]

\* needed_tab.get(key, [])
needed_tab_get(needed_tab, key) ==
    IF key \in DOMAIN needed_tab THEN needed_tab[key] ELSE {}

\* a new column whatever the number of columns
_to_tab_any_room(tab, needed_tab, card) ==
    {_add_card_to_new_col(tab, card)}
    \cup {_add_card_to_col(tab, col, card) : col \in needed_tab_get(needed_tab, type(card))}

\* the card is never put on top of a column
_to_tab_new_column_only(tab, needed_tab, card) ==
    IF Cardinality(tab) < MAX_COLS THEN {_add_card_to_new_col(tab, card)} ELSE {}

_to_tab(tab, needed_tab, card) ==
    (IF Cardinality(tab) < MAX_COLS THEN {_add_card_to_new_col(tab, card)} ELSE {})
    \cup {_add_card_to_col(tab, col, card) : col \in needed_tab_get(needed_tab, type(card))}

\* the only card of a column is moved to a new column too
_within_tab_sole_card(tab, needed_tab, av_tab) ==
    UNION {
        (IF Cardinality(tab) < MAX_COLS
         THEN {_add_card_to_new_col(_remove_card_from_col(tab, av_tab[av_card]), av_card)}
         ELSE {})
        \cup {_add_card_to_col(_remove_card_from_col(tab, av_tab[av_card]), to_col, av_card) :
                to_col \in needed_tab_get(needed_tab, type(av_card))}
        : av_card \in DOMAIN av_tab}

_within_tab(tab, needed_tab, av_tab) ==
    UNION {
        (IF Len(av_tab[av_card]) > 1 /\ Cardinality(tab) < MAX_COLS
         THEN {_add_card_to_new_col(_remove_card_from_col(tab, av_tab[av_card]), av_card)}
         ELSE {})
        \cup {_add_card_to_col(_remove_card_from_col(tab, av_tab[av_card]), to_col, av_card) :
                to_col \in needed_tab_get(needed_tab, type(av_card))}
        : av_card \in DOMAIN av_tab}

_new_state(home, free, tab) == [home |-> home, free |-> free, tab |-> tab]

_av_home(state) == {<<state.home[suit + 1], suit>> : suit \in {s \in Suits : state.home[s + 1] > 0}}

_needed_home(home) ==
    {<<home[suit + 1] + 1, suit>> : suit \in {s \in Suits : home[s + 1] < MAX_RANK}}

\* maps the top card of every column to its column
_av_tab(tab) == [card \in {Top(col) : col \in tab} |-> CHOOSE col \in tab : Top(col) = card]

\* maps a needed (rank, is_red) to the columns that need it
_needed_tab(av_tab) ==
    LET givers == {card \in DOMAIN av_tab : rank_int(card) > 1}
    IN  [needed \in {next_type(card) : card \in givers} |->
            {av_tab[card] : card \in {c \in givers : next_type(c) = needed}}]

\* the other suit of the same colour is not looked at
_automatic_cards_no_sibling(home, cards) ==
    {card \in cards :
        \/ rank_int(card) <= 2
        \/ \A opp_color_suit \in _opp_color(suit_int(card)) :
               home[opp_color_suit + 1] >= rank_int(card) - 1}

\* a 3 also waits for the ace of the other suit of its colour
_automatic_cards_3_needs_sibling(home, cards) ==
    {card \in cards :
        \/ rank_int(card) <= 2
        \/ /\ \A opp_color_suit \in _opp_color(suit_int(card)) :
                  home[opp_color_suit + 1] >= rank_int(card) - 1
           /\ home[_sibling_suit(suit_int(card)) + 1] >= rank_int(card) - 2}

\* a 3 goes home whatever the other home cells hold
_automatic_cards_any_3(home, cards) ==
    {card \in cards :
        \/ rank_int(card) <= 3
        \/ /\ \A opp_color_suit \in _opp_color(suit_int(card)) :
                  home[opp_color_suit + 1] >= rank_int(card) - 1
           /\ home[_sibling_suit(suit_int(card)) + 1] >= rank_int(card) - 2}

_automatic_cards(home, cards) ==
    {card \in cards :
        \/ rank_int(card) <= 2
        \/ /\ \A opp_color_suit \in _opp_color(suit_int(card)) :
                  home[opp_color_suit + 1] >= rank_int(card) - 1
           /\ \/ rank_int(card) = 3
              \/ home[_sibling_suit(suit_int(card)) + 1] >= rank_int(card) - 2}

\* _move_home: the home ranks after the card went home
\* the home rank is raised by two
_move_home_by_two(card, home) == [home EXCEPT ![suit_int(card) + 1] = @ + 2]

_move_home(card, home) == [home EXCEPT ![suit_int(card) + 1] = @ + 1]

\* the 'From free' loop of one pass of _auto_neighbor: every card of the set goes home
RECURSIVE auto_from_free(_, _)
auto_from_free(cards, pass) ==
    IF cards = {} THEN pass
    ELSE LET card == CHOOSE c \in cards : TRUE
         IN  auto_from_free(cards \ {card},
                 [pass EXCEPT !.free = @ \ {card},
                              !.home = _move_home(card, @),
                              !.delta_cost = @ + 1])

\* the 'From tab' loop of one pass of _auto_neighbor
RECURSIVE auto_from_tab(_, _)
auto_from_tab(cards, pass) ==
    IF cards = {} THEN pass
    ELSE LET card == CHOOSE c \in cards : TRUE
             col == _av_tab(pass.tab)[card]
         IN  auto_from_tab(cards \ {card},
                 [pass EXCEPT !.home = _move_home(card, @),
                              !.tab = _remove_card_from_col(@, col),
                              !.delta_cost = @ + 1])

\* the loop ends after its first pass
auto_loop_one_pass(home, free, tab, cost) ==
    LET start == [home |-> home, free |-> free, tab |-> tab, delta_cost |-> 0]
        after_free == auto_from_free(
            _automatic_cards(home, free \cap _needed_home(home)), start)
        after_tab == auto_from_tab(
            _automatic_cards(after_free.home,
                DOMAIN _av_tab(after_free.tab) \cap _needed_home(after_free.home)),
            after_free)
    IN  IF after_tab.delta_cost = 0 THEN <<>>
        ELSE <<_new_state(after_tab.home, after_tab.free, after_tab.tab),
               after_tab.delta_cost>>

\* the cost counts the passes of the loop, not the cards
RECURSIVE auto_loop_counts_passes(_, _, _, _)
auto_loop_counts_passes(home, free, tab, cost) ==
    LET start == [home |-> home, free |-> free, tab |-> tab, delta_cost |-> 0]
        after_free == auto_from_free(
            _automatic_cards(home, free \cap _needed_home(home)), start)
        after_tab == auto_from_tab(
            _automatic_cards(after_free.home,
                DOMAIN _av_tab(after_free.tab) \cap _needed_home(after_free.home)),
            after_free)
    IN  IF after_tab.delta_cost = 0
        THEN IF cost = 0 THEN <<>>
             ELSE <<_new_state(home, free, tab), cost>>
        ELSE auto_loop_counts_passes(after_tab.home, after_tab.free, after_tab.tab, cost + 1)

\* the while loop of _auto_neighbor; None is the empty tuple
RECURSIVE auto_loop(_, _, _, _)
auto_loop(home, free, tab, cost) ==
    LET start == [home |-> home, free |-> free, tab |-> tab, delta_cost |-> 0]
        after_free == auto_from_free(
            _automatic_cards(home, free \cap _needed_home(home)), start)
        after_tab == auto_from_tab(
            _automatic_cards(after_free.home,
                DOMAIN _av_tab(after_free.tab) \cap _needed_home(after_free.home)),
            after_free)
    IN  IF after_tab.delta_cost = 0
        THEN IF cost = 0 THEN <<>>
             ELSE <<_new_state(home, free, tab), cost>>
        ELSE auto_loop(after_tab.home, after_tab.free, after_tab.tab,
                       cost + after_tab.delta_cost)

\* the for loops of _auto_neighbor in turn: for each, the home cells, free cells and
\* tableau when _automatic_cards is called and the cards it returns, all of which
\* the loop sends home in the order of iteration of the set
RECURSIVE auto_passes(_, _, _)
auto_passes(home, free, tab) ==
    LET start == [home |-> home, free |-> free, tab |-> tab, delta_cost |-> 0]
        from_free == _automatic_cards(home, free \cap _needed_home(home))
        after_free == auto_from_free(from_free, start)
        from_tab == _automatic_cards(after_free.home,
                        DOMAIN _av_tab(after_free.tab) \cap _needed_home(after_free.home))
        after_tab == auto_from_tab(from_tab, after_free)
    IN  IF after_tab.delta_cost = 0 THEN <<>>
        ELSE <<[home |-> home, free |-> free, tab |-> tab, cards |-> from_free],
               [home |-> after_free.home, free |-> after_free.free, tab |-> after_free.tab,
                cards |-> from_tab]>>
             \o auto_passes(after_tab.home, after_tab.free, after_tab.tab)

_auto_neighbor(state) == auto_loop(state.home, state.free, state.tab, 0)

\* lines 523-575 of neighbors: the seven ordinary moves, every one of cost 1
ordinary_neighbors(state) ==
    LET needed_home == _needed_home(state.home)
        free == state.free
        av_tab == _av_tab(state.tab)
        av_home == _av_home(state)
        needed_tab == _needed_tab(av_tab)
        free_to_tab ==
            UNION {{_new_state(state.home, _remove_card_from_free(state.free, card), new_tab) :
                        new_tab \in _to_tab(state.tab, needed_tab, card)} : card \in free}
        free_to_home ==
            {_new_state(_to_home(state, needed_home, card),
                        _remove_card_from_free(state.free, card), state.tab) :
                card \in {c \in free : _to_home(state, needed_home, c) # <<>>}}
        tab_to_tab ==
            {_new_state(state.home, state.free, new_tab) :
                new_tab \in _within_tab(state.tab, needed_tab, av_tab)}
        tab_to_free ==
            IF Cardinality(state.free) < MAX_FREE_CELLS
            THEN {_new_state(state.home, _add_card_to_free(state.free, card),
                             _remove_card_from_col(state.tab, av_tab[card])) :
                     card \in DOMAIN av_tab}
            ELSE {}
        tab_to_home ==
            {_new_state(_to_home(state, needed_home, card), state.free,
                        _remove_card_from_col(state.tab, av_tab[card])) :
                card \in {c \in DOMAIN av_tab : _to_home(state, needed_home, c) # <<>>}}
        home_to_free ==
            IF Cardinality(state.free) < MAX_FREE_CELLS
            THEN {_new_state(_remove_from_home(state, card),
                             _add_card_to_free(state.free, card), state.tab) :
                     card \in av_home}
            ELSE {}
        home_to_tab ==
            UNION {{_new_state(_remove_from_home(state, card), state.free, new_tab) :
                        new_tab \in _to_tab(state.tab, needed_tab, card)} : card \in av_home}
    IN  {<<new_state, 1>> :
            new_state \in free_to_tab \cup free_to_home \cup tab_to_tab \cup tab_to_free
                          \cup tab_to_home \cup home_to_free \cup home_to_tab}

\* the ordinary moves are returned along with the automatic neighbor
neighbors_with_ordinary(state) ==
    IF _auto_neighbor(state) # <<>> THEN {_auto_neighbor(state)} \cup ordinary_neighbors(state)
    ELSE ordinary_neighbors(state)

neighbors(state) ==
    IF _auto_neighbor(state) # <<>> THEN {_auto_neighbor(state)}
    ELSE ordinary_neighbors(state)

(***************************************************************************)
(* move_description.  A description is [kind, cards, onto]: kind names     *)
(* the sentence ('... to a free cell.', '... to its home cell.' and its     *)
(* plural forms, '... on top of ...', '... to a new column.'), cards the    *)
(* cards the sentence names in order, onto the card after 'on top of'.      *)
(* kind "ValueError" is the raise of line 613.  The source returns on the   *)
(* first match of an iteration over a set, whose order the language leaves  *)
(* open: the operator gives every description an iteration order can        *)
(* produce.                                                                 *)
(***************************************************************************)
Description(kind, cards, onto) == [kind |-> kind, cards |-> cards, onto |-> onto]

\* xrange(from_state[suit_int]+1, to_state[suit_int]+1) as the list of its cards
RECURSIVE home_range(_, _, _)
home_range(suit, first, last) ==
    IF first > last THEN <<>>
    ELSE <<(<<first, suit>>)>> \o home_range(suit, first + 1, last)

to_home_cards(from_state, to_state) ==
    home_range(0, from_state.home[1] + 1, to_state.home[1])
    \o home_range(1, from_state.home[2] + 1, to_state.home[2])
    \o home_range(2, from_state.home[3] + 1, to_state.home[3])
    \o home_range(3, from_state.home[4] + 1, to_state.home[4])

\* to_col[-4:-2]: the card under the top card, empty for a single card
under_top(col) == IF Len(col) > 1 THEN <<col[Len(col) - 1]>> ELSE <<>>

\* line 606: the columns of to_tab that are a column of from_tab plus one card
extended_columns(from_state, to_state) ==
    {to_col \in to_state.tab : Front(to_col) \in from_state.tab}

\* line 610: the single-card columns of to_tab that are no column of from_tab
new_columns(from_state, to_state) ==
    {to_col \in to_state.tab : Len(to_col) = 1 /\ to_col \notin from_state.tab}

move_description(from_state, to_state) ==
    LET added_free_cells == to_state.free \ from_state.free
        home_cards == to_home_cards(from_state, to_state)
        extended == extended_columns(from_state, to_state)
        started == new_columns(from_state, to_state)
    IN  IF added_free_cells # {}
        THEN {Description("free", <<card>>, <<>>) : card \in added_free_cells}
        ELSE IF home_cards # <<>>
        THEN {Description("home", home_cards, <<>>)}
        ELSE IF extended # {}
        THEN {Description("onto", <<Top(to_col)>>, under_top(to_col)) : to_col \in extended}
        ELSE IF started # {}
        THEN {Description("new", <<to_col[1]>>, <<>>) : to_col \in started}
        ELSE {Description("ValueError", <<>>, <<>>)}

(***************************************************************************)
(* Initial layouts: every card of the deck once, in at most MAX_COLS       *)
(* columns (FreeCellProblem.__init__ builds (0, 0, 0, 0, {}, tableau)).     *)
(* The cards above rank 4, when the deck has any, lie under the first       *)
(* column, kings lowest.                                                    *)
(***************************************************************************)
RECURSIVE high_cards(_)
high_cards(rank) ==
    IF rank <= 4 THEN <<>>
    ELSE <<(<<rank, 0>>), (<<rank, 1>>), (<<rank, 2>>), (<<rank, 3>>)>> \o high_cards(rank - 1)

Layout(first, others) == {high_cards(MAX_RANK) \o first} \cup others

Layouts == {
    Layout(<<(<<4,0>>), (<<1,3>>), (<<4,1>>), (<<3,3>>), (<<1,1>>), (<<4,2>>), (<<3,2>>), (<<2,1>>),
             (<<3,1>>), (<<2,3>>), (<<3,0>>), (<<2,0>>), (<<1,2>>), (<<1,0>>), (<<2,2>>), (<<4,3>>)>>, {}),
    Layout(<<(<<4,0>>), (<<1,3>>), (<<4,2>>), (<<3,3>>), (<<4,3>>), (<<3,1>>), (<<2,0>>), (<<1,0>>)>>,
           {<<(<<2,1>>), (<<4,1>>), (<<1,1>>), (<<2,2>>), (<<2,3>>), (<<3,0>>), (<<1,2>>), (<<3,2>>)>>}),
    Layout(<<(<<2,1>>), (<<1,1>>), (<<4,1>>), (<<3,0>>)>>,
           {<<(<<4,0>>), (<<1,2>>), (<<4,3>>), (<<2,2>>), (<<4,2>>), (<<3,1>>), (<<2,3>>), (<<3,2>>),
              (<<3,3>>), (<<1,0>>), (<<2,0>>), (<<1,3>>)>>}),
    Layout(<<(<<3,2>>), (<<4,2>>), (<<4,0>>), (<<4,1>>), (<<4,3>>), (<<3,0>>), (<<3,1>>), (<<3,3>>),
             (<<2,2>>), (<<2,0>>), (<<2,1>>), (<<2,3>>), (<<1,2>>), (<<1,0>>), (<<1,1>>), (<<1,3>>)>>, {})
}

\* the deck by rank, aces first; by rank, kings first; suit by suit, kings first
by_rank == [i \in 1..(4 * MAX_RANK) |-> <<((i - 1) \div 4) + 1, (i - 1) % 4>>]
by_rank_down == [i \in 1..(4 * MAX_RANK) |-> <<MAX_RANK - ((i - 1) \div 4), (i - 1) % 4>>]
by_suit_down == [i \in 1..(4 * MAX_RANK) |-> <<MAX_RANK - ((i - 1) % MAX_RANK), (i - 1) \div MAX_RANK>>]

\* the cards dealt in turn to 'columns' columns
Deal(order, columns) ==
    {[i \in 1..(((Len(order) - j) \div columns) + 1) |-> order[j + (i - 1) * columns]] :
        j \in 1..columns}

Deals == {Deal(order, columns) : order \in {by_rank, by_rank_down, by_suit_down},
                                 columns \in 1..MAX_COLS}

(***************************************************************************)
(* The search engine of search.py runs on an abstract Problem: states are   *)
(* the nodes 1..4, node 1 is initial_state(), neighbors(s) are the edges    *)
(* that leave s with their costs, and move_description(parent, child) is    *)
(* the pair <<parent, child>>.                                              *)
(***************************************************************************)
MaxCost == 4
MaxH == 3

Nodes == 1..4
Edges == {<<1, 2>>, <<1, 3>>, <<2, 3>>, <<2, 4>>, <<3, 4>>}
BackEdges == {<<3, 1>>, <<2, 2>>}

\* what _Stack.pop and _Queue.pop return: they have no return statement
None == 0

VARIABLES
    rows,           \* the rows of the layout file FreeCellProblem is built from
    init_state,     \* FreeCellProblem._init_state, <<>> before it is set
    state,          \* the state the play has reached
    last_edge,      \* <<parent, child, cost>> of the edge just followed, or <<>>
    described,      \* <<from_state, to_state, description>> of the last move_description call
    returned,       \* <<value>> returned (or error raised) by the last call made on its own, or <<>>
    strategy,       \* "dfs", "bfs" or "astar": the open set _search was given
    edge_cost,      \* the Problem: cost of every edge, 0 for an edge that is absent
    goals,          \* the Problem: the states for which is_goal holds
    heuristic,      \* the heuristic given to astar
    open_set,       \* the open set object: [_stack], [_queue] or [_heap, _g_score, _last_g_score]
    closed,         \* _search: closed
    came_from,      \* _search: came_from, a function from a state to its parent
    current,        \* _search: current, the value the last pop returned
    pc,             \* where _search is: "start", "loop", or how it ended
    result          \* the list _search returned

board_vars == <<rows, init_state, state, last_edge, described, returned>>
search_vars == <<strategy, edge_cost, goals, heuristic, open_set, closed, came_from,
                 current, pc, result>>
vars == <<rows, init_state, state, last_edge, described, returned, strategy, edge_cost, goals, heuristic,
          open_set, closed, came_from, current, pc, result>>

(***************************************************************************)
(* Problem                                                                 *)
(***************************************************************************)
Problem_initial_state == 1

Problem_is_goal(s) == s \in goals

Problem_neighbors(s) ==
    {<<edge[2], edge_cost[edge]>> : edge \in {e \in DOMAIN edge_cost : e[1] = s /\ edge_cost[e] > 0}}

Problem_move_description(from_state, to_state) == <<from_state, to_state>>

(***************************************************************************)
(* The open sets.  push returns <<open set after the call, accepted>>,     *)
(* pop returns <<open set after the call, returned value>>.                *)
(***************************************************************************)
_Stack__init__ == [_stack |-> <<>>]

_Stack_push(self, s) == <<[self EXCEPT !._stack = Append(@, s)], TRUE>>

_Stack_pop(self) == <<[self EXCEPT !._stack = SubSeq(@, 1, Len(@) - 1)], None>>

_Stack_empty(self) == Len(self._stack) = 0

_Queue__init__ == [_queue |-> <<>>]

_Queue_push(self, s) == <<[self EXCEPT !._queue = Append(@, s)], TRUE>>

_Queue_pop(self) == <<[self EXCEPT !._queue = Tail(@)], None>>

_Queue_empty(self) == Len(self._queue) = 0

\* _last_g_score is <<>> for None and <<g>> for a score; the heap is the set of its
\* (f, state) entries: a state is never pushed twice with the same g
_PriorityQueue__init__ == [_heap |-> {}, _g_score |-> <<>>, _last_g_score |-> <<>>]

\* the g score push gives the state
push_g_score(self, cost) ==
    IF self._last_g_score = <<>> THEN 0 ELSE self._last_g_score[1] + cost

\* a recorded g score is never improved
push_rejects_any_recorded(self, s, g_score) ==
    /\ self._last_g_score # <<>>
    /\ s \in DOMAIN self._g_score

\* a push at the recorded g score is accepted again
push_rejects_only_worse(self, s, g_score) ==
    /\ self._last_g_score # <<>>
    /\ s \in DOMAIN self._g_score
    /\ g_score > self._g_score[s]

\* line 116: g_score >= self._g_score.get(state, _INFINITY)
push_rejects(self, s, g_score) ==
    /\ self._last_g_score # <<>>
    /\ s \in DOMAIN self._g_score
    /\ g_score >= self._g_score[s]

_PriorityQueue_push(self, s, cost) ==
    LET g_score == push_g_score(self, cost)
    IN  IF push_rejects(self, s, g_score) THEN <<self, FALSE>>
        ELSE <<[self EXCEPT
                  !._g_score = [n \in DOMAIN self._g_score \cup {s} |->
                                   IF n = s THEN g_score ELSE self._g_score[n]],
                  !._heap = @ \cup {<<g_score + heuristic[s], s>>}],
               TRUE>>

\* heappop returns a least (f, state) tuple: an entry of least f, and among these the
\* least state in the order of the states, which the Problem leaves open
heap_least(heap) == {entry \in heap : \A other \in heap : entry[1] <= other[1]}

\* the g score of the parent is taken from the priority of the popped entry
_PriorityQueue_pop_entry_g(self, entry) ==
    <<[self EXCEPT !._heap = @ \ {entry},
                   !._last_g_score = <<entry[1] - heuristic[entry[2]]>>],
      entry[2]>>

\* lines 124-128
_PriorityQueue_pop(self, entry) ==
    <<[self EXCEPT !._heap = @ \ {entry}, !._last_g_score = <<self._g_score[entry[2]]>>],
      entry[2]>>

\* a heap of one entry counts as empty
_PriorityQueue_empty_at_one(self) == Cardinality(self._heap) <= 1

_PriorityQueue_empty(self) == self._heap = {}

push(self, s, cost) ==
    IF strategy = "dfs" THEN _Stack_push(self, s)
    ELSE IF strategy = "bfs" THEN _Queue_push(self, s)
    ELSE _PriorityQueue_push(self, s, cost)

\* the results pop can give
pop(self) ==
    IF strategy = "dfs" THEN {_Stack_pop(self)}
    ELSE IF strategy = "bfs" THEN {_Queue_pop(self)}
    ELSE {_PriorityQueue_pop(self, entry) : entry \in heap_least(self._heap)}

empty(self) ==
    IF strategy = "dfs" THEN _Stack_empty(self)
    ELSE IF strategy = "bfs" THEN _Queue_empty(self)
    ELSE _PriorityQueue_empty(self)

(***************************************************************************)
(* _reconstruct_path                                                       *)
(***************************************************************************)
\* the descriptions in the order the loop appends them, goal end first; the loop
\* runs for ever when came_from holds a cycle: steps counts the passes left before
\* a state must have repeated
RECURSIVE path_backward(_, _, _)
path_backward(cur, parents, steps) ==
    IF cur \notin DOMAIN parents \/ steps = 0 THEN <<>>
    ELSE <<Problem_move_description(parents[cur], cur)>>
         \o path_backward(parents[cur], parents, steps - 1)

\* the moves are returned in the order they were walked, goal first
Reverse_omitted(seq) == seq

Reverse(seq) == [i \in 1..Len(seq) |-> seq[Len(seq) + 1 - i]]

_reconstruct_path(cur, parents) ==
    Reverse(path_backward(cur, parents, Cardinality(DOMAIN parents) + 1))

\* the while loop of _reconstruct_path never ends
path_loops(cur, parents) ==
    Len(path_backward(cur, parents, Cardinality(DOMAIN parents) + 1))
        > Cardinality(DOMAIN parents)

(***************************************************************************)
(* _search                                                                 *)
(***************************************************************************)
\* the parent and the child exchanged
record_came_from_swapped(parents, neighbor, cur) ==
    [n \in DOMAIN parents \cup {cur} |-> IF n = cur THEN neighbor ELSE parents[n]]

\* line 216
record_came_from(parents, neighbor, cur) ==
    [n \in DOMAIN parents \cup {neighbor} |-> IF n = neighbor THEN cur ELSE parents[n]]

\* a closed neighbor is pushed like any other
skip_neighbor_never(neighbor, closed_set) == FALSE

\* once two states are closed every neighbor is skipped
skip_neighbor_when_two_closed(neighbor, closed_set) ==
    neighbor \in closed_set \/ Cardinality(closed_set) >= 2

\* line 213
skip_neighbor(neighbor, closed_set) == neighbor \in closed_set

\* the for loop of lines 212-216 over the neighbors in the order given
RECURSIVE expand(_, _, _, _, _)
expand(order, cur, closed_set, open, parents) ==
    IF order = <<>> THEN <<open, parents>>
    ELSE LET neighbor == order[1][1]
             cost == order[1][2]
             pushed == push(open, neighbor, cost)
         IN  IF skip_neighbor(neighbor, closed_set)
             THEN expand(Tail(order), cur, closed_set, open, parents)
             ELSE IF pushed[2]
             THEN expand(Tail(order), cur, closed_set, pushed[1],
                         record_came_from(parents, neighbor, cur))
             ELSE expand(Tail(order), cur, closed_set, pushed[1], parents)

\* the orders in which a list can hold the elements of a set
Orders(set) ==
    {order \in [1..Cardinality(set) -> set] : \A i, j \in DOMAIN order : i # j => order[i] # order[j]}

BoardIdle ==
    /\ rows = <<>>
    /\ returned = <<>>
    /\ init_state = <<>>
    /\ state = <<>>
    /\ last_edge = <<>>
    /\ described = <<>>

SearchIdle ==
    /\ strategy = "none"
    /\ edge_cost = <<>>
    /\ goals = {}
    /\ heuristic = <<>>
    /\ open_set = <<>>
    /\ closed = {}
    /\ came_from = <<>>
    /\ current = None
    /\ pc = "idle"
    /\ result = <<>>

\* astar(problem, heuristic), dfs(problem) or bfs(problem) is called
Init ==
    /\ BoardIdle
    /\ \/ /\ strategy = "astar"
          /\ goals = {4}
          /\ \E costs \in [Edges -> 0..MaxCost] :
                 edge_cost = [e \in Edges \cup BackEdges |-> IF e \in Edges THEN costs[e] ELSE 1]
          /\ heuristic \in {h \in [Nodes -> 0..MaxH] : h[1] = 0 /\ h[4] = 0}
          /\ open_set = _PriorityQueue__init__
       \/ /\ strategy = "astar"
          /\ goals = {1}
          /\ edge_cost = [e \in Edges \cup BackEdges |-> 1]
          /\ heuristic = [n \in Nodes |-> 0]
          /\ open_set = _PriorityQueue__init__
       \/ /\ strategy \in {"dfs", "bfs"}
          /\ goals \in {{4}, {1}}
          /\ \E costs \in [Edges -> 0..MaxCost] :
                 edge_cost = [e \in Edges \cup BackEdges |-> IF e \in Edges THEN costs[e] ELSE 1]
          /\ heuristic = [n \in Nodes |-> 0]
          /\ open_set = IF strategy = "dfs" THEN _Stack__init__ ELSE _Queue__init__
    /\ closed = {}
    /\ came_from = <<>>
    /\ current = None
    /\ pc = "start"
    /\ result = <<>>

\* lines 198-200
Start ==
    /\ pc = "start"
    /\ open_set' = push(open_set, Problem_initial_state, 0)[1]
    /\ pc' = "loop"
    /\ UNCHANGED <<strategy, edge_cost, goals, heuristic, closed, came_from, current, result>>
    /\ UNCHANGED board_vars

\* one pass of the while loop, lines 202-216.  is_goal subscripts the state
\* (freecell.py:159), which raises TypeError for None.
Iterate ==
    /\ pc = "loop"
    /\ ~empty(open_set)
    /\ \E popped \in pop(open_set) :
        /\ current' = popped[2]
        /\ IF popped[2] = None
           THEN /\ pc' = "TypeError"
                /\ open_set' = popped[1]
                /\ UNCHANGED <<closed, came_from, result>>
           ELSE IF Problem_is_goal(popped[2])
           THEN /\ open_set' = popped[1]
                /\ IF path_loops(popped[2], came_from)
                   THEN pc' = "never returns" /\ result' = result
                   ELSE pc' = "returned" /\ result' = _reconstruct_path(popped[2], came_from)
                /\ UNCHANGED <<closed, came_from>>
           ELSE /\ closed' = closed \cup {popped[2]}
                /\ \E order \in Orders(Problem_neighbors(popped[2])) :
                       LET expanded == expand(order, popped[2], closed', popped[1], came_from)
                       IN  open_set' = expanded[1] /\ came_from' = expanded[2]
                /\ UNCHANGED <<pc, result>>
    /\ UNCHANGED <<strategy, edge_cost, goals, heuristic>>
    /\ UNCHANGED board_vars

\* line 218: the while loop ended
Exhausted ==
    /\ pc = "loop"
    /\ empty(open_set)
    /\ pc' = "NoSolutionError"
    /\ UNCHANGED <<strategy, edge_cost, goals, heuristic, open_set, closed, came_from,
                   current, result>>
    /\ UNCHANGED board_vars

Next == Start \/ Iterate \/ Exhausted

Spec == Init /\ [][Next]_vars

\* a call of astar, dfs or bfs runs until it returns or raises: nothing suspends
\* the while loop of _search
\* the calls whose runs are followed to their end: astar with no heuristic or with
\* one that puts state 2 or state 3 last, dfs and bfs on the graphs of unit costs
InitLive ==
    /\ BoardIdle
    /\ \/ /\ strategy = "astar"
          /\ goals = {4}
          /\ \E costs \in [Edges -> 0..MaxCost] :
                 edge_cost = [e \in Edges \cup BackEdges |-> IF e \in Edges THEN costs[e] ELSE 1]
          /\ heuristic \in {[n \in Nodes |-> 0],
                            [n \in Nodes |-> IF n = 2 THEN MaxH ELSE 0],
                            [n \in Nodes |-> IF n = 3 THEN MaxH ELSE 0]}
          /\ open_set = _PriorityQueue__init__
       \/ /\ strategy \in {"dfs", "bfs"}
          /\ goals \in {{4}, {1}}
          /\ \E costs \in [Edges -> 0..1] :
                 edge_cost = [e \in Edges \cup BackEdges |-> IF e \in Edges THEN costs[e] ELSE 1]
          /\ heuristic = [n \in Nodes |-> 0]
          /\ open_set = IF strategy = "dfs" THEN _Stack__init__ ELSE _Queue__init__
    /\ closed = {}
    /\ came_from = <<>>
    /\ current = None
    /\ pc = "start"
    /\ result = <<>>

SpecLive == InitLive /\ [][Next]_vars /\ WF_vars(Next)

(***************************************************************************)
(* Playing the FreeCell graph: from an initial layout, follow the edges     *)
(* neighbors returns and describe them.                                     *)
(***************************************************************************)
\* csv.reader: the rows of a layout, in some order of the lines of the file
RowsOf(layout) == CHOOSE order \in Orders(layout) : TRUE

\* line 122: blank rows are ignored
read_rows(file_rows) == SelectSeq(file_rows, LAMBDA row : row # <<>>)

\* the cards of the rows read, in the order read
RECURSIVE read_cards(_)
read_cards(file_rows) ==
    IF file_rows = <<>> THEN <<>> ELSE file_rows[1] \o read_cards(Tail(file_rows))

\* line 127: deck.remove(card) raises KeyError for a card that is no card of the
\* deck or that was removed before
remove_raises(cards) ==
    \E i \in DOMAIN cards :
        \/ cards[i] \notin Deck
        \/ \E j \in 1..(i - 1) : cards[j] = cards[i]

\* no card is ever found missing
missing_cards_unchecked(cards) == {}

\* line 131: what is left of the deck after the rows were read
missing_cards(cards) == Deck \ {cards[i] : i \in DOMAIN cards}

\* lines 117-134: the error raised, if any, and _init_state
__init__(file_rows) ==
    LET read == read_rows(file_rows)
        cards == read_cards(read)
    IN  IF remove_raises(cards) THEN [error |-> "KeyError", _init_state |-> <<>>]
        ELSE IF missing_cards(cards) # {} THEN [error |-> "ValueError", _init_state |-> <<>>]
        ELSE [error |-> "none",
              _init_state |-> _new_state(<<0, 0, 0, 0>>, {}, {read[i] : i \in DOMAIN read})]

InitBoard ==
    /\ SearchIdle
    /\ rows \in {RowsOf(layout) : layout \in Layouts \cup Deals}
    /\ init_state = __init__(rows)._init_state
    /\ state = init_state
    /\ last_edge = <<>>
    /\ described = <<>>
    /\ returned = <<>>

\* layout files: the layouts above, and each of them with one card left out, with
\* one card or a token that is no card written once more, with one card replaced by
\* its sibling of the same colour, with a blank row, and with one row cut in two
LayoutFiles ==
    LET good == {RowsOf(layout) : layout \in Layouts \cup Deals}
        places(file_rows) == {<<i, j>> \in (DOMAIN file_rows) \X (1..(4 * MAX_RANK)) :
                                 j <= Len(file_rows[i])}
        without(row, j) == SubSeq(row, 1, j - 1) \o SubSeq(row, j + 1, Len(row))
        sibling(card) == <<rank_int(card), _sibling_suit(suit_int(card))>>
    IN  good
        \cup UNION {{[file_rows EXCEPT ![at[1]] = without(@, at[2])] :
                        at \in places(file_rows)} : file_rows \in good}
        \cup UNION {{[file_rows EXCEPT ![i] = Append(@, card)] :
                        i \in DOMAIN file_rows, card \in Deck \cup {<<MAX_RANK + 1, 0>>}} :
                    file_rows \in good}
        \cup UNION {{[file_rows EXCEPT ![at[1]][at[2]] = sibling(@)] :
                        at \in places(file_rows)} : file_rows \in good}
        \cup {Append(file_rows, <<>>) : file_rows \in good}
        \cup UNION {{[file_rows EXCEPT ![at[1]] = SubSeq(@, 1, at[2])]
                         \o <<SubSeq(file_rows[at[1]], at[2] + 1, Len(file_rows[at[1]]))>> :
                        at \in places(file_rows)} : file_rows \in good}

InitLoad ==
    /\ SearchIdle
    /\ rows \in LayoutFiles
    /\ init_state = <<>>
    /\ state = <<>>
    /\ last_edge = <<>>
    /\ described = <<>>
    /\ returned = <<>>

\* FreeCellProblem(filename)
Load ==
    /\ returned = <<>>
    /\ LET built == __init__(rows)
       IN  /\ returned' = <<built.error>>
           /\ init_state' = built._init_state
           /\ state' = built._init_state
    /\ UNCHANGED <<rows, last_edge, described>>
    /\ UNCHANGED search_vars

NextLoad == Load

SpecLoad == InitLoad /\ [][NextLoad]_vars

\* states to test is_goal on: home ranks at 0, MAX_RANK - 1 or MAX_RANK, with and
\* without a card in a free cell and a column in the tableau
GoalInputs ==
    {_new_state(home, free, tab) :
        home \in [1..4 -> {0, MAX_RANK - 1, MAX_RANK}],
        free \in {{}, {<<MAX_RANK, 0>>}},
        tab \in {{}, {<<(<<MAX_RANK, 1>>)>>}}}

InitGoal ==
    /\ SearchIdle
    /\ rows = <<>>
    /\ init_state = <<>>
    /\ state \in GoalInputs
    /\ last_edge = <<>>
    /\ described = <<>>
    /\ returned = <<>>

\* problem.is_goal(state)
TestGoal ==
    /\ returned = <<>>
    /\ returned' = <<is_goal(state)>>
    /\ UNCHANGED <<rows, init_state, state, last_edge, described>>
    /\ UNCHANGED search_vars

NextGoal == TestGoal

SpecGoal == InitGoal /\ [][NextGoal]_vars

\* follow one edge returned by neighbors and describe it, as _reconstruct_path does
\* for every (parent, child) pair of the path
(***************************************************************************)
(* heuristic (freecell.py:650-668), called freecell_heuristic here: the    *)
(* name heuristic is the variable holding the function given to astar      *)
(***************************************************************************)
\* a card counts 2 also when its rank equals the minimum seen for its suit
counts_two_not_below(min_cards, card) == min_cards[suit_int(card)] <= rank_int(card)

\* line 663: min_cards[suit] < rank
counts_two(min_cards, card) == min_cards[suit_int(card)] < rank_int(card)

\* the inner for loop, lines 660-667, from card ndx of the column on
RECURSIVE heuristic_column(_, _, _)
heuristic_column(col, ndx, min_cards) ==
    IF ndx > Len(col) THEN 0
    ELSE IF counts_two(min_cards, col[ndx])
    THEN 2 + heuristic_column(col, ndx + 1, min_cards)
    ELSE 1 + heuristic_column(col, ndx + 1,
                              [min_cards EXCEPT ![suit_int(col[ndx])] = rank_int(col[ndx])])

\* the outer for loop, line 658, over the columns not yet counted
RECURSIVE heuristic_columns(_)
heuristic_columns(columns) ==
    IF columns = {} THEN 0
    ELSE LET col == CHOOSE c \in columns : TRUE
         IN  heuristic_column(col, 1, [suit \in Suits |-> MAX_RANK])
                 + heuristic_columns(columns \ {col})

freecell_heuristic(s) == Cardinality(s.free) + heuristic_columns(s.tab)

Move ==
    /\ \E neighbor \in neighbors(state) :
        /\ state' = neighbor[1]
        /\ last_edge' = <<state, neighbor[1], neighbor[2]>>
        /\ \E description \in move_description(state, neighbor[1]) :
               described' = <<state, neighbor[1], description>>
    /\ returned' = <<>>
    /\ UNCHANGED <<rows, init_state>>
    /\ UNCHANGED search_vars

\* the states two edges away
two_edges_away(s) == UNION {{far[1] : far \in neighbors(near[1])} : near \in neighbors(s)}

\* move_description called on a pair that need not be an edge: the state itself,
\* the initial state, or a state two edges away
Describe ==
    /\ \E to_state \in {state, init_state} \cup two_edges_away(state) :
        \E description \in move_description(state, to_state) :
            described' = <<state, to_state, description>>
    /\ last_edge' = <<>>
    /\ UNCHANGED <<rows, init_state, state, returned>>
    /\ UNCHANGED search_vars

NextBoard == Move

SpecBoard == InitBoard /\ [][NextBoard]_vars

\* the play, with move_description also called on pairs of states that need not
\* be adjacent
NextDescribe == Move \/ Describe

SpecDescribe == InitBoard /\ [][NextDescribe]_vars

\* the same play, to compare what can be reached with and without auto-play
SpecSolvable == InitBoard /\ [][NextBoard]_vars

\* heuristic(state) is called on the state the play has reached
Estimate ==
    /\ returned = <<>>
    /\ returned' = <<freecell_heuristic(state)>>
    /\ UNCHANGED <<rows, init_state, state, last_edge, described>>
    /\ UNCHANGED search_vars

NextHeuristic == Move \/ Estimate

SpecHeuristic == InitBoard /\ [][NextHeuristic]_vars

(***************************************************************************)
(* Properties of the search engine (specification Spec)                    *)
(***************************************************************************)
\* the states an open set holds
OpenStates(self) ==
    IF strategy = "dfs" THEN {self._stack[i] : i \in DOMAIN self._stack}
    ELSE IF strategy = "bfs" THEN {self._queue[i] : i \in DOMAIN self._queue}
    ELSE {entry[2] : entry \in self._heap}

\* the states met when following came_from backward from cur, cur first
RECURSIVE chain_backward(_, _, _)
chain_backward(cur, parents, steps) ==
    IF cur \notin DOMAIN parents \/ steps = 0 THEN <<cur>>
    ELSE <<cur>> \o chain_backward(parents[cur], parents, steps - 1)

Chain(cur, parents) ==
    LET backward == chain_backward(cur, parents, Cardinality(Nodes))
    IN  [i \in 1..Len(backward) |-> backward[Len(backward) + 1 - i]]

IsEdge(parent, child) == \E neighbor \in Problem_neighbors(parent) : neighbor[1] = child

RECURSIVE PathCost(_)
PathCost(path) ==
    IF path = <<>> THEN 0 ELSE edge_cost[path[1]] + PathCost(Tail(path))

\* more than the cost of any path without a repeated state
Far == Cardinality(Nodes) * (MaxCost + 1)

Least(set) == CHOOSE least \in set : \A other \in set : least <= other

\* the least cost of a path of at most 'edges' edges from every state to a goal
RECURSIVE CostWithin(_)
CostWithin(edges) ==
    IF edges = 0 THEN [n \in Nodes |-> IF n \in goals THEN 0 ELSE Far]
    ELSE LET shorter == CostWithin(edges - 1)
         IN  [n \in Nodes |->
                 Least({shorter[n]} \cup
                       {neighbor[2] + shorter[neighbor[1]] : neighbor \in Problem_neighbors(n)})]

\* the true minimum remaining cost to a goal, at least Far when no goal is reachable
TrueCost == CostWithin(Cardinality(Nodes))

\* the least number of edges of a path from the states of 'frontier' to a goal,
\* counted from 'edges'; -1 when no goal is reachable
RECURSIVE FewestEdges(_, _, _)
FewestEdges(frontier, seen, edges) ==
    IF frontier \cap goals # {} THEN edges
    ELSE IF frontier = {} THEN -1
    ELSE LET reached == UNION {{neighbor[1] : neighbor \in Problem_neighbors(n)} : n \in frontier}
                            \ seen
         IN  FewestEdges(reached, seen \cup reached, edges + 1)

Finished == pc \notin {"idle", "start", "loop"}

\* C2: whenever astar returns, the chain that follows came_from backward from the
\* popped state starts at the initial state, every consecutive pair of it is an
\* edge returned by neighbors(parent), and its last state is a goal.
C2_AstarChainIsPath ==
    (strategy = "astar" /\ pc = "returned") =>
        LET chain == Chain(current, came_from)
        IN  /\ chain[1] = Problem_initial_state
            /\ \A i \in 1..(Len(chain) - 1) : IsEdge(chain[i], chain[i + 1])
            /\ Problem_is_goal(chain[Len(chain)])
            /\ chain[Len(chain)] = current

C2_Witness ==
    /\ strategy = "astar"
    /\ pc = "returned"
    /\ Chain(current, came_from) = <<1, 2, 3, 4>>

\* C3: under dfs every pop removes and returns the most recently pushed state not
\* yet popped, and that state is the one the search tests for goal and expands.
C3_DfsPopsLastPushed ==
    [][(strategy = "dfs" /\ pc = "loop" /\ open_set._stack # <<>>) =>
          /\ open_set'._stack = Front(open_set._stack)
          /\ current' = Top(open_set._stack)]_vars

\* C4: when all edge costs are equal, bfs returns a path with the least number of
\* edges among the paths from the initial state to a goal.
C4_BfsFewestEdges ==
    (/\ strategy = "bfs"
     /\ Finished
     /\ \A e, f \in Edges : edge_cost[e] = edge_cost[f]
     /\ FewestEdges({Problem_initial_state}, {Problem_initial_state}, 0) >= 0) =>
        /\ pc = "returned"
        /\ Len(result) = FewestEdges({Problem_initial_state}, {Problem_initial_state}, 0)

\* C5: the search ends with NoSolutionError exactly when the loop finds the open
\* set empty, and then no popped state was a goal; it never raises it while the
\* open set holds a state, and an empty open set never yields a returned path.
C5_NoSolutionWhenExhausted ==
    [][/\ (pc' = "NoSolutionError") <=> (pc = "loop" /\ OpenStates(open_set) = {})
       /\ (pc' = "NoSolutionError") =>
              /\ OpenStates(open_set') = {}
              /\ \A s \in closed' \cup ({current'} \ {None}) : ~Problem_is_goal(s)
       /\ (pc' = "returned") =>
              /\ OpenStates(open_set) # {}
              /\ Problem_is_goal(current')]_vars

C5_Witness ==
    /\ strategy = "astar"
    /\ pc = "NoSolutionError"
    /\ closed = {1, 2, 3}

\* the heuristic never exceeds the true least remaining cost to a goal
Admissible == \A n \in Nodes : TrueCost[n] < Far => heuristic[n] <= TrueCost[n]

\* every edge the Problem returns costs at least 1
PositiveCosts == \A n \in Nodes : \A neighbor \in Problem_neighbors(n) : neighbor[2] >= 1

\* 0 on every goal, and h(s) <= cost + h(t) on every edge from s to t
Consistent ==
    /\ \A n \in goals : heuristic[n] = 0
    /\ \A n \in Nodes : \A neighbor \in Problem_neighbors(n) :
           heuristic[n] <= neighbor[2] + heuristic[neighbor[1]]

\* C6 as stated: with an admissible, non-negative heuristic and edge costs >= 1 the
\* path astar returns has the least total cost.
C6_AdmissibleAstarOptimal ==
    (strategy = "astar" /\ pc = "returned" /\ Admissible /\ PositiveCosts) =>
        PathCost(result) = TrueCost[Problem_initial_state]

\* C6 amended: with a consistent, non-negative heuristic and edge costs >= 1 the
\* path astar returns has the least total cost.
C6_ConsistentAstarOptimal ==
    (strategy = "astar" /\ pc = "returned" /\ Consistent /\ PositiveCosts) =>
        PathCost(result) = TrueCost[Problem_initial_state]

C6_Witness ==
    /\ strategy = "astar"
    /\ pc = "returned"
    /\ Consistent
    /\ PositiveCosts
    /\ heuristic[2] > 0
    /\ Len(result) = 3
    /\ PathCost(result) = TrueCost[Problem_initial_state]

\* C11: the sequence a search returns holds one description per edge of the
\* came_from chain from the initial state to the goal, the i-th description being
\* move_description of the i-th edge counted from the initial state, and it is
\* empty exactly when the initial state is a goal.
C11_OneDescriptionPerEdge ==
    pc = "returned" =>
        LET chain == Chain(current, came_from)
        IN  /\ Len(result) = Len(chain) - 1
            /\ \A i \in 1..Len(result) :
                   result[i] = Problem_move_description(chain[i], chain[i + 1])
            /\ (result = <<>>) <=> Problem_is_goal(Problem_initial_state)

C11_Witness ==
    /\ pc = "returned"
    /\ Len(result) = 3
    /\ result[1][1] = Problem_initial_state
    /\ Problem_is_goal(result[3][2])

\* a pass of the while loop of astar that expands the popped state
AstarExpands == strategy = "astar" /\ pc = "loop" /\ pc' = "loop"

\* the entries a heap holds for a state
EntriesOf(heap, n) == {entry \in heap : entry[2] = n}

\* what a map from states holds for a state, <<>> when it holds nothing
Recorded(map, n) == IF n \in DOMAIN map THEN <<map[n]>> ELSE <<>>

\* the neighbours of the state just popped which line 215 pushes
PushedNeighbors == {neighbor \in Problem_neighbors(current') : neighbor[1] \notin closed'}

\* C19: in astar, the push of a neighbour at g = g(last popped state) + edge cost
\* is rejected exactly when a g score less than or equal to g is recorded for the
\* neighbour, and then the heap, the g scores and came_from keep what they hold for
\* it; otherwise g is recorded, the entry (g + h, neighbour) is inserted and
\* came_from[neighbour] becomes the state being expanded.  Nothing else changes
\* but the popped entry.
C19_PushRejectsEqualOrBetter ==
    [][AstarExpands =>
          \E popped \in EntriesOf(open_set._heap, current') :
              LET rest == open_set._heap \ {popped}
                  g_scores == open_set._g_score
              IN  /\ \A neighbor \in PushedNeighbors :
                         LET n == neighbor[1]
                             g == g_scores[current'] + neighbor[2]
                         IN  IF n \in DOMAIN g_scores /\ g_scores[n] <= g
                             THEN /\ EntriesOf(open_set'._heap, n) = EntriesOf(rest, n)
                                  /\ Recorded(open_set'._g_score, n) = <<g_scores[n]>>
                                  /\ Recorded(came_from', n) = Recorded(came_from, n)
                             ELSE /\ EntriesOf(open_set'._heap, n)
                                         = EntriesOf(rest, n) \cup {<<g + heuristic[n], n>>}
                                  /\ Recorded(open_set'._g_score, n) = <<g>>
                                  /\ Recorded(came_from', n) = <<current'>>
                  /\ \A n \in Nodes \ {neighbor[1] : neighbor \in PushedNeighbors} :
                         /\ EntriesOf(open_set'._heap, n) = EntriesOf(rest, n)
                         /\ Recorded(open_set'._g_score, n) = Recorded(g_scores, n)
                         /\ Recorded(came_from', n) = Recorded(came_from, n)]_vars

\* state 3 was pushed twice, the second time at a lower g through state 2, and its
\* own push of state 4 at the g recorded for 4 was rejected
C19_Witness ==
    /\ strategy = "astar"
    /\ pc = "loop"
    /\ current = 3
    /\ came_from = [n \in {2, 3, 4} |-> IF n = 2 THEN 1 ELSE 2]
    /\ \E stale \in EntriesOf(open_set._heap, 3) :
           stale[1] > open_set._g_score[3] + heuristic[3]
    /\ edge_cost[<<3, 4>>] > 0
    /\ open_set._g_score[4] = open_set._g_score[3] + edge_cost[<<3, 4>>]
    /\ Cardinality(EntriesOf(open_set._heap, 4)) = 1

\* a pass of the while loop of astar: it pops
AstarPops == strategy = "astar" /\ pc = "loop" /\ open_set._heap # {}

\* the cost of the edges of a chain of states
ChainCost(chain) ==
    PathCost([i \in 1..(Len(chain) - 1) |-> <<chain[i], chain[i + 1]>>])

\* C20: in astar, every pop removes an entry of least priority and returns its
\* state; g + h(state), with g the g score recorded for that state, is not greater
\* than the priority of any entry of the open set; g is the cost accumulated along
\* the came_from chain from the initial state, and it is the g from which the
\* children pushed during the expansion of the state are given their g score.
C20_PopsLeastPriority ==
    [][AstarPops =>
          LET g == open_set._g_score[current']
          IN  /\ \E popped \in EntriesOf(open_set._heap, current') :
                     /\ popped \notin open_set'._heap
                     /\ \A other \in open_set._heap : popped[1] <= other[1]
              /\ \A entry \in open_set._heap : g + heuristic[current'] <= entry[1]
              /\ Chain(current', came_from)[1] = Problem_initial_state
              /\ g = ChainCost(Chain(current', came_from))
              /\ open_set'._last_g_score = <<g>>
              /\ \A n \in Nodes :
                     (/\ Recorded(came_from', n) = <<current'>>
                      /\ Recorded(came_from, n) # <<current'>>) =>
                         open_set'._g_score[n] = g + edge_cost[<<current', n>>]]_vars

\* state 3 was pushed by state 1 and again, at a lower g, by state 2; both its
\* entries were popped, and state 4 holds the g score state 3 gave it
C20_Witness ==
    /\ strategy = "astar"
    /\ pc = "loop"
    /\ current = 3
    /\ edge_cost[<<1, 3>>] > 0
    /\ came_from = [n \in {2, 3, 4} |-> IF n = 4 THEN 3 ELSE IF n = 3 THEN 2 ELSE 1]
    /\ EntriesOf(open_set._heap, 3) = {}
    /\ open_set._last_g_score = <<open_set._g_score[3]>>
    /\ open_set._g_score[4] = open_set._g_score[3] + edge_cost[<<3, 4>>]

\* C25: on a finite graph with every edge cost >= 1 and a non-negative heuristic,
\* every search run, astar, dfs or bfs, ends after finitely many pops by returning
\* a path or by raising NoSolutionError.
C25_EverySearchTerminates ==
    PositiveCosts => <>(pc \in {"returned", "NoSolutionError"})

\* some goal can be reached from the initial state through edges of neighbors
GoalReachable == TrueCost[Problem_initial_state] < Far

\* C26: if some goal state is reachable from the initial state through edges
\* returned by neighbors, astar returns a path: its run reaches the return, so it
\* does not end by raising NoSolutionError.
C26_AstarIsComplete ==
    (strategy = "astar" /\ GoalReachable) => <>(pc = "returned")

\* astar returned the path through states 2 and 3 after state 3 was also pushed
\* by the initial state, and the push of state 4 from state 2 came first
C26_Witness ==
    /\ strategy = "astar"
    /\ pc = "returned"
    /\ current = 4
    /\ edge_cost[<<1, 3>>] > 0
    /\ edge_cost[<<2, 4>>] > 0
    /\ came_from = [n \in {2, 3, 4} |-> IF n = 4 THEN 3 ELSE IF n = 3 THEN 2 ELSE 1]

\* came_from holds nothing for the initial state, and following it backward from
\* any state ends at the initial state: it holds no cycle
ParentsLeadToTheStart ==
    /\ Problem_initial_state \notin DOMAIN came_from
    /\ \A n \in DOMAIN came_from : Chain(n, came_from)[1] = Problem_initial_state
    /\ \A n \in closed \cup ({current} \ {None}) :
           Chain(n, came_from)[1] = Problem_initial_state

\* the parent of a closed state is left as it is
ClosedParentsKept == \A n \in closed : Recorded(came_from', n) = Recorded(came_from, n)

\* C27: in every state of a search run came_from has no entry for the initial
\* state and no cycle, so that walking it backward from any popped state ends at
\* the initial state; and no step changes the parent recorded for a state that is
\* in closed.
C27_ParentsFormATree ==
    /\ []ParentsLeadToTheStart
    /\ [][ClosedParentsKept]_vars

\* state 3 was given state 2 as its parent in place of state 1 before it was
\* closed, and its neighbor state 1, closed, was skipped
C27_Witness ==
    /\ strategy = "astar"
    /\ pc = "loop"
    /\ current = 3
    /\ {1, 2, 3} \subseteq closed
    /\ edge_cost[<<1, 3>>] > 0
    /\ edge_cost[<<3, 1>>] > 0
    /\ came_from[3] = 2
    /\ Chain(3, came_from) = <<1, 2, 3>>

\* C28: in a search by astar no state is expanded more than once: a state that is
\* in closed is never popped again, and its neighbors are not enumerated again.
C28_ClosedStateNeverPoppedAgain ==
    [][AstarPops => current' \notin closed]_vars

(***************************************************************************)
(* Properties of the FreeCell graph (SpecBoard, SpecDescribe, SpecSolvable)*)
(***************************************************************************)
\* in how many places a card is: home, a free cell, a position of a column
Places(s, card) ==
    (IF rank_int(card) <= s.home[suit_int(card) + 1] THEN 1 ELSE 0)
    + (IF card \in s.free THEN 1 ELSE 0)
    + Cardinality({pos \in UNION {{<<col, i>> : i \in DOMAIN col} : col \in s.tab} :
                      pos[1][pos[2]] = card})

\* C1: in every state reached from a valid initial layout through the edges of
\* neighbors, every card of the deck is in exactly one place among home, a free
\* cell and one position of one column, at most MAX_FREE_CELLS free cells are
\* used and the tableau has at most MAX_COLS columns.
C1_EveryCardInOnePlace ==
    /\ \A card \in Deck : Places(state, card) = 1
    /\ Cardinality(state.free) <= MAX_FREE_CELLS
    /\ Cardinality(state.tab) <= MAX_COLS

C1_Witness ==
    /\ last_edge # <<>>
    /\ last_edge[3] > 1
    /\ Cardinality(state.free) = MAX_FREE_CELLS
    /\ Cardinality(state.tab) = MAX_COLS
    /\ \E suit \in Suits : state.home[suit + 1] > 0

\* where a card is: <<"free">>, <<"home">>, or <<"tab", under>> with under the
\* card it lies on, <<>> at the bottom of a column
Position(s, card) ==
    IF card \in s.free THEN <<"free">>
    ELSE IF \E col \in s.tab : \E i \in DOMAIN col : col[i] = card
    THEN LET col == CHOOSE c \in s.tab : \E i \in DOMAIN c : c[i] = card
             i == CHOOSE k \in DOMAIN col : col[k] = card
         IN  <<"tab", IF i = 1 THEN <<>> ELSE <<col[i - 1]>>>>
    ELSE <<"home">>

MovedCards(parent, child) == {card \in Deck : Position(parent, card) # Position(child, card)}

TopCards(s) == {Top(col) : col \in s.tab}

\* C7: for every edge (s1, s2) of neighbors, move_description(s1, s2) does not
\* raise, names exactly the cards moved on the edge, and names the destination
\* used: a free cell, home, the card that topped the destination column in s1,
\* or a new column.
C7_DescriptionNamesTheMove ==
    last_edge # <<>> =>
        LET parent == last_edge[1]
            child == last_edge[2]
            description == described[3]
            moved == MovedCards(parent, child)
        IN  /\ description.kind # "ValueError"
            /\ {description.cards[i] : i \in DOMAIN description.cards} = moved
            /\ Len(description.cards) = Cardinality(moved)
            /\ \A card \in moved :
                   IF Position(child, card) = <<"free">> THEN description.kind = "free"
                   ELSE IF Position(child, card) = <<"home">> THEN description.kind = "home"
                   ELSE IF Position(child, card)[2] = <<>> THEN description.kind = "new"
                   ELSE /\ description.kind = "onto"
                        /\ description.onto = Position(child, card)[2]
                        /\ description.onto[1] \in TopCards(parent)

IsSuccessor(from_state, to_state) == \E neighbor \in neighbors(from_state) : neighbor[1] = to_state

\* C8: for well-formed states s1, s2 with s2 no successor of s1 (s1 = s2
\* included), move_description(s1, s2) signals an error.
C8_NonSuccessorRaises ==
    (described # <<>> /\ ~IsSuccessor(described[1], described[2])) =>
        described[3].kind = "ValueError"

\* C9 as stated: along every edge of neighbors no home rank decreases.
C9_HomeRanksOnlyIncrease ==
    last_edge # <<>> =>
        \A suit \in Suits : last_edge[2].home[suit + 1] >= last_edge[1].home[suit + 1]

LoweredSuits(parent, child) == {suit \in Suits : child.home[suit + 1] < parent.home[suit + 1]}

\* C9 amended: along an auto-play edge no home rank decreases; along an ordinary
\* edge either no home rank decreases, or (a Home -> Free or Home -> Tableau move)
\* exactly one suit's home rank decreases, by exactly 1, no other home rank
\* changes, and the card taken from home is in a free cell or on top of a column.
C9_HomeRankLoweredOnlyByHomeMoves ==
    last_edge # <<>> =>
        LET parent == last_edge[1]
            child == last_edge[2]
            lowered == LoweredSuits(parent, child)
        IN  \/ lowered = {}
            \/ /\ _auto_neighbor(parent) = <<>>
               /\ last_edge[3] = 1
               /\ Cardinality(lowered) = 1
               /\ \A suit \in lowered :
                      /\ child.home[suit + 1] = parent.home[suit + 1] - 1
                      /\ <<parent.home[suit + 1], suit>> \in child.free \cup TopCards(child)
               /\ \A suit \in Suits \ lowered : child.home[suit + 1] = parent.home[suit + 1]

C9_Witness ==
    /\ last_edge # <<>>
    /\ LoweredSuits(last_edge[1], last_edge[2]) # {}
    /\ last_edge[2].free = last_edge[1].free

\* the states reached through the edges of neighbors
RECURSIVE reach_neighbors(_, _)
reach_neighbors(seen, frontier) ==
    IF frontier = {} THEN seen
    ELSE LET found == UNION {{n[1] : n \in neighbors(s)} : s \in frontier} \ seen
         IN  reach_neighbors(seen \cup found, found)

\* the states reached through the seven ordinary moves alone
RECURSIVE reach_ordinary(_, _)
reach_ordinary(seen, frontier) ==
    IF frontier = {} THEN seen
    ELSE LET found == UNION {{n[1] : n \in ordinary_neighbors(s)} : s \in frontier} \ seen
         IN  reach_ordinary(seen \cup found, found)

SolvableByNeighbors(s) == \E reached \in reach_neighbors({s}, {s}) : is_goal(reached)
SolvableByOrdinaryMoves(s) == \E reached \in reach_ordinary({s}, {s}) : is_goal(reached)

\* C10: for every valid initial layout, a goal state is reachable through the edges
\* of neighbors (auto-play edges included) if and only if one is reachable through
\* the seven ordinary moves alone.
C10_AutoPlayKeepsSolvability ==
    (state = init_state /\ last_edge = <<>> /\ described = <<>>) =>
        (SolvableByNeighbors(init_state) <=> SolvableByOrdinaryMoves(init_state))

C10_Witness ==
    /\ state = init_state
    /\ last_edge = <<>>
    /\ described = <<>>
    /\ _auto_neighbor(init_state) # <<>>
    /\ Cardinality(init_state.tab) = MAX_COLS
    /\ SolvableByNeighbors(init_state)
    /\ SolvableByOrdinaryMoves(init_state)

(***************************************************************************)
(* Properties of auto-play (specification SpecBoard)                       *)
(***************************************************************************)
\* a card in a free cell or on top of a column
Available(s, card) == card \in s.free \/ \E col \in s.tab : Top(col) = card

NextForHome(s, card) == rank_int(card) = s.home[suit_int(card) + 1] + 1

\* the auto-play condition: rank <= 2, or both suits of the other colour are home
\* up to rank - 1 and (rank = 3 or the other suit of the same colour is home up to
\* rank - 2)
AutoCondition(home, card) ==
    \/ rank_int(card) <= 2
    \/ /\ \A suit \in Suits :
              is_red(suit) # is_red(suit_int(card)) => home[suit + 1] >= rank_int(card) - 1
       /\ \/ rank_int(card) = 3
          \/ \A suit \in Suits :
                 (is_red(suit) = is_red(suit_int(card)) /\ suit # suit_int(card))
                     => home[suit + 1] >= rank_int(card) - 2

AutoMovable(s, card) ==
    Available(s, card) /\ NextForHome(s, card) /\ AutoCondition(s.home, card)

AutoMovableCards(s) == {card \in Deck : AutoMovable(s, card)}

\* the state after one available card went home
SentHome(s, card) ==
    [home |-> [s.home EXCEPT ![suit_int(card) + 1] = @ + 1],
     free |-> s.free \ {card},
     tab |-> {col \in s.tab : Top(col) # card}
             \cup {Front(col) : col \in {c \in s.tab : Top(c) = card /\ Len(c) > 1}}]

\* auto-play home moves repeated one card at a time until none applies
RECURSIVE PlayedOut(_)
PlayedOut(s) ==
    IF AutoMovableCards(s) = {} THEN s
    ELSE PlayedOut(SentHome(s, CHOOSE card \in AutoMovableCards(s) : TRUE))

\* C14: if an available card is the next card for its home pile and satisfies the
\* auto-play condition, neighbors(state) returns exactly one successor, the state
\* reached by repeating auto-play home moves until none applies, and no other
\* successor of an ordinary move.
C14_AutoPlayIsTheOnlyNeighbor ==
    AutoMovableCards(state) # {} =>
        /\ Cardinality(neighbors(state)) = 1
        /\ \A neighbor \in neighbors(state) : neighbor[1] = PlayedOut(state)

C14_Witness ==
    /\ last_edge # <<>>
    /\ last_edge[3] = 1
    /\ Cardinality(AutoMovableCards(state)) = 1
    /\ Cardinality(ordinary_neighbors(state)) > 2
    /\ \E neighbor \in neighbors(state) : neighbor[2] > 2

\* the state after the cards of a set, all available, went home
RECURSIVE SentAllHome(_, _)
SentAllHome(s, cards) ==
    IF cards = {} THEN s
    ELSE LET card == CHOOSE c \in cards : TRUE
         IN  SentAllHome(SentHome(s, card), cards \ {card})

\* the state after the cards of the first 'count' for loops went home
RECURSIVE AfterPasses(_, _, _)
AfterPasses(s, passes, count) ==
    IF count = 0 THEN s
    ELSE SentAllHome(AfterPasses(s, passes, count - 1), passes[count].cards)

\* C15: a card is moved home by the auto-play step only if, at the moment it is
\* moved (after any of the other cards its for loop sends home), it is available,
\* its rank is home[suit] + 1 and it satisfies the auto-play condition; the cards
\* so moved make up the whole step; and the step never stops while an available
\* next-for-home card satisfies the condition.
C15_AutoPlayMovesOnlyAutoMovableCards ==
    LET passes == auto_passes(state.home, state.free, state.tab)
        moved == AfterPasses(state, passes, Len(passes))
    IN  /\ \A k \in DOMAIN passes :
               /\ [home |-> passes[k].home, free |-> passes[k].free, tab |-> passes[k].tab]
                      = AfterPasses(state, passes, k - 1)
               /\ \A card \in passes[k].cards :
                      \A before \in SUBSET (passes[k].cards \ {card}) :
                          AutoMovable(SentAllHome(AfterPasses(state, passes, k - 1), before), card)
        /\ IF _auto_neighbor(state) = <<>>
           THEN passes = <<>> /\ AutoMovableCards(state) = {}
           ELSE /\ _auto_neighbor(state)[1] = moved
                /\ AutoMovableCards(moved) = {}

C15_Witness ==
    LET passes == auto_passes(state.home, state.free, state.tab)
    IN  /\ last_edge # <<>>
        /\ Len(passes) >= 4
        /\ \E k \in DOMAIN passes :
               /\ Cardinality(passes[k].cards) >= 2
               /\ \E card \in passes[k].cards : rank_int(card) >= 3

\* the state in which the auto-play step called on s ends
AfterAutoPlay(s) == IF _auto_neighbor(s) = <<>> THEN s ELSE _auto_neighbor(s)[1]

\* the cards of rank 3 that are available and next for their home pile
AvailableThrees(s) ==
    {card \in Deck : rank_int(card) = 3 /\ Available(s, card) /\ NextForHome(s, card)}

\* C16 as stated: an available rank-3 card that is the next card for its home pile
\* is auto-played whatever the home ranks of the other three suits are.
C16_ThreeIsAlwaysAutoPlayed ==
    \A card \in AvailableThrees(state) :
        AfterAutoPlay(state).home[suit_int(card) + 1] >= 3

\* C16 amended: an available rank-3 card that is the next card for its home pile
\* is auto-played if and only if both suits of the other colour have home rank >= 2
\* by the end of the auto-play step, whatever the home rank of the other suit of
\* its own colour is.
C16_ThreeIsAutoPlayedAfterOppositeTwos ==
    \A card \in AvailableThrees(state) :
        (AfterAutoPlay(state).home[suit_int(card) + 1] >= 3)
            <=> \A suit \in Suits :
                    is_red(suit) # is_red(suit_int(card))
                        => AfterAutoPlay(state).home[suit + 1] >= 2

C16_Witness ==
    \E card \in AvailableThrees(state) :
        /\ AfterAutoPlay(state).home[suit_int(card) + 1] >= 3
        /\ \E suit \in Suits :
               /\ suit # suit_int(card)
               /\ is_red(suit) = is_red(suit_int(card))
               /\ AfterAutoPlay(state).home[suit + 1] = 0

\* C17: the successor of an auto-play edge holds no auto-movable card and the
\* auto-play step called on it gives no compressed successor; and for any state
\* without an auto-movable card the step gives no compressed successor and sends
\* no card home.
C17_AutoPlayReachesAFixedPoint ==
    /\ (last_edge # <<>> /\ AutoMovableCards(last_edge[1]) # {}) =>
           /\ AutoMovableCards(last_edge[2]) = {}
           /\ _auto_neighbor(last_edge[2]) = <<>>
    /\ AutoMovableCards(state) = {} =>
           /\ _auto_neighbor(state) = <<>>
           /\ auto_passes(state.home, state.free, state.tab) = <<>>
           /\ neighbors(state) = ordinary_neighbors(state)

C17_Witness ==
    /\ last_edge # <<>>
    /\ AutoMovableCards(last_edge[1]) # {}
    /\ last_edge[3] >= 3
    /\ \E card \in Deck : Available(state, card) /\ NextForHome(state, card)
    /\ _auto_neighbor(state) = <<>>

HomeTotal(s) == s.home[1] + s.home[2] + s.home[3] + s.home[4]

\* the number of cards in the free cells and the tableau
CardsInPlay(s) == Cardinality({card \in Deck : rank_int(card) > s.home[suit_int(card) + 1]})

\* C18: every ordinary edge returned by neighbors costs exactly 1; an auto-play
\* edge costs the number of cards moved home, which is the sum over the four
\* suits of the home-rank increase and is at least 1.
C18_CostCountsTheMoves ==
    last_edge # <<>> =>
        LET parent == last_edge[1]
            child == last_edge[2]
            cost == last_edge[3]
        IN  IF AutoMovableCards(parent) # {}
            THEN /\ cost = HomeTotal(child) - HomeTotal(parent)
                 /\ cost = CardsInPlay(parent) - CardsInPlay(child)
                 /\ cost = Cardinality((parent.free \ child.free) \cup
                               {card \in Deck : /\ \E col \in parent.tab :
                                                      \E i \in DOMAIN col : col[i] = card
                                                /\ ~\E col \in child.tab :
                                                      \E i \in DOMAIN col : col[i] = card})
                 /\ cost >= 1
            ELSE cost = 1

C18_Witness ==
    /\ last_edge # <<>>
    /\ last_edge[3] >= 5
    /\ last_edge[1].free # last_edge[2].free
    /\ last_edge[1].tab # last_edge[2].tab

\* the states one legal Free-to-Home or Tableau-to-Home move away: an available
\* card whose rank is the home rank of its suit plus one goes home
HomeMoves(s) ==
    {SentHome(s, card) : card \in {c \in Deck : Available(s, c) /\ NextForHome(s, c)}}

\* the states reached by exactly k such moves
RECURSIVE AfterHomeMoves(_, _)
AfterHomeMoves(states, k) ==
    IF k = 0 THEN states
    ELSE AfterHomeMoves(UNION {HomeMoves(s) : s \in states}, k - 1)

\* the card lies in its home pile
IsHome(s, card) == s.home[suit_int(card) + 1] >= rank_int(card)

\* C29: the successor of an auto-play edge of cost k is a state reached from the
\* source by a sequence of k legal single-card Free-to-Home or Tableau-to-Home
\* moves, each of an available card whose rank is the home rank of its suit plus
\* one at that moment; its free cells and columns are those of the source without
\* the cards moved home.
C29_AutoPlayIsASequenceOfHomeMoves ==
    (last_edge # <<>> /\ AutoMovableCards(last_edge[1]) # {}) =>
        LET parent == last_edge[1]
            child == last_edge[2]
        IN  /\ child \in AfterHomeMoves({parent}, last_edge[3])
            /\ child.free = {card \in parent.free : ~IsHome(child, card)}
            /\ child.tab =
                   {SubSeq(col, 1, Cardinality({i \in DOMAIN col : ~IsHome(child, col[i])})) :
                       col \in {c \in parent.tab : \E i \in DOMAIN c : ~IsHome(child, c[i])}}
            /\ \A col \in child.tab : \A i \in DOMAIN col : ~IsHome(child, col[i])

\* the last move was an auto-play of four cards or more that took a card from a
\* free cell and the last cards of a column
C29_Witness ==
    /\ last_edge # <<>>
    /\ AutoMovableCards(last_edge[1]) # {}
    /\ last_edge[3] >= 4
    /\ last_edge[1].free # {}
    /\ last_edge[2].free = {}
    /\ Cardinality(last_edge[2].tab) < Cardinality(last_edge[1].tab)

(***************************************************************************)
(* Properties of the ordinary moves (specification SpecBoard)              *)
(***************************************************************************)
\* the top card of column 'to' is one rank higher than the card and of the
\* opposite colour
Accepts(to, card) ==
    /\ rank_int(Top(to)) = rank_int(card) + 1
    /\ is_red(suit_int(Top(to))) # is_red(suit_int(card))

\* the tableau without the top card of a column
WithoutTop(tab, col) ==
    (tab \ {col}) \cup (IF Len(col) > 1 THEN {Front(col)} ELSE {})

\* the tableaus the claim names for a move within the tableau
WithinTabSuccessors(tab) ==
    {WithoutTop(tab, col) \cup {<<Top(col)>>} :
        col \in {c \in tab : Len(c) > 1 /\ Cardinality(tab) < MAX_COLS}}
    \cup {(WithoutTop(tab, pair[1]) \ {pair[2]}) \cup {Append(pair[2], Top(pair[1]))} :
            pair \in {p \in tab \X tab : p[1] # p[2] /\ Accepts(p[2], Top(p[1]))}}

\* C22: moving a top card within the tableau yields exactly: for each column of more
\* than one card, when the tableau has fewer than MAX_COLS columns, its top card as
\* a new column; and for each other column whose top card is one rank higher and of
\* the opposite colour, the card on top of it.  The only card of a column is never
\* moved to a new column, and when there is no auto-play these are, at cost 1, the
\* neighbors that keep the home cells and the free cells.
C22_WithinTableauSuccessors ==
    LET av_tab == _av_tab(state.tab)
        tabs == _within_tab(state.tab, _needed_tab(av_tab), av_tab)
    IN  /\ tabs = WithinTabSuccessors(state.tab)
        /\ state.tab \notin tabs
        /\ _auto_neighbor(state) = <<>> =>
               {neighbor \in neighbors(state) :
                    neighbor[1].home = state.home /\ neighbor[1].free = state.free}
                   = {<<_new_state(state.home, state.free, tab), 1>> : tab \in tabs}

\* the last move put the top card of a column in a new column, and the state
\* reached holds a column of one card and a column that accepts no card
C22_Witness ==
    /\ last_edge # <<>>
    /\ last_edge[1].home = last_edge[2].home
    /\ last_edge[1].free = last_edge[2].free
    /\ Cardinality(last_edge[2].tab) = Cardinality(last_edge[1].tab) + 1
    /\ \E col \in state.tab : Len(col) = 1

\* the tableaus the claim names for a card that comes from outside the tableau
ToTabSuccessors(tab, card) ==
    (IF Cardinality(tab) < MAX_COLS THEN {tab \cup {<<card>>}} ELSE {})
    \cup {(tab \ {to}) \cup {Append(to, card)} : to \in {col \in tab : Accepts(col, card)}}

\* the home ranks after the top card of a home pile left it
HomeWithout(home, card) == [home EXCEPT ![suit_int(card) + 1] = rank_int(card) - 1]

\* C23: placing a card that comes from a free cell or a home pile yields exactly:
\* the card as a new column of one card if and only if the tableau has fewer than
\* MAX_COLS columns, and one tableau per column whose top card is one rank higher
\* and of the opposite colour; with MAX_COLS columns and no such column there is no
\* successor.  When there is no auto-play these are, at cost 1, the neighbors in
\* which the card left its free cell or its home pile for the tableau.
C23_ToTableauSuccessors ==
    LET needed_tab == _needed_tab(_av_tab(state.tab))
    IN  \A card \in state.free \cup _av_home(state) :
            LET tabs == _to_tab(state.tab, needed_tab, card)
            IN  /\ tabs = ToTabSuccessors(state.tab, card)
                /\ (/\ Cardinality(state.tab) = MAX_COLS
                     /\ \A col \in state.tab : ~Accepts(col, card)) => tabs = {}
                /\ (_auto_neighbor(state) = <<>> /\ card \in state.free) =>
                       {neighbor \in neighbors(state) :
                            /\ neighbor[1].home = state.home
                            /\ neighbor[1].free = state.free \ {card}}
                           = {<<_new_state(state.home, state.free \ {card}, tab), 1>> :
                                 tab \in tabs}
                /\ (_auto_neighbor(state) = <<>> /\ card \in _av_home(state)) =>
                       {neighbor \in neighbors(state) :
                            /\ neighbor[1].home = HomeWithout(state.home, card)
                            /\ neighbor[1].free = state.free}
                           = {<<_new_state(HomeWithout(state.home, card), state.free, tab), 1>> :
                                 tab \in tabs}

\* the last move put a free-cell card on top of a column of a full tableau, and
\* the state reached holds a card in a home pile that no column accepts
C23_Witness ==
    /\ last_edge # <<>>
    /\ last_edge[1].home = last_edge[2].home
    /\ last_edge[2].free = {}
    /\ last_edge[1].free # {}
    /\ Cardinality(last_edge[1].tab) = MAX_COLS
    /\ Cardinality(state.tab) = MAX_COLS
    /\ \E card \in _av_home(state) : ToTabSuccessors(state.tab, card) = {}

\* the bottom cards of the columns that hold a card
Bottoms(tab) == {col[1] : col \in {c \in tab : c # <<>>}}

\* the card is in a free cell, in its home pile, or on top of another card
NotABottom(s, card) ==
    \/ card \in s.free
    \/ s.home[suit_int(card) + 1] >= rank_int(card)
    \/ \E col \in s.tab : \E ndx \in 2..Len(col) : col[ndx] = card

\* the columns of a state whose last card was removed on the way to another
Emptied(from_state, to_state) ==
    {col \in from_state.tab : col # <<>> /\ NotABottom(to_state, col[1])}

\* C24: no reachable state has an empty column in its tableau; a column whose last
\* card was removed by the last move, ordinary or auto-play, is not in the tableau
\* any more, each such column lowering the number of columns by one.
C24_NoEmptyColumn ==
    /\ <<>> \notin state.tab
    /\ last_edge # <<>> =>
           LET emptied == Emptied(last_edge[1], last_edge[2])
               from_tab == last_edge[1].tab
               to_tab == last_edge[2].tab
           IN  /\ <<>> \notin to_tab
               /\ \A col \in emptied : col[1] \notin Bottoms(to_tab)
               /\ Cardinality(to_tab)
                      = Cardinality(from_tab) - Cardinality(emptied)
                            + Cardinality(Bottoms(to_tab) \ Bottoms(from_tab))

\* the last move was an auto-play that took the last cards of a column, and a
\* column is left
C24_Witness ==
    /\ last_edge # <<>>
    /\ last_edge[3] > 1
    /\ Emptied(last_edge[1], last_edge[2]) # {}
    /\ Cardinality(state.tab) = Cardinality(last_edge[1].tab) - 1
    /\ state.tab # {}

(***************************************************************************)
(* Properties of building the problem (specification SpecLoad)             *)
(***************************************************************************)
\* how often a card is written in the rows of a layout file
CardCount(file_rows, card) ==
    Cardinality({at \in (DOMAIN file_rows) \X (1..(4 * MAX_RANK + 1)) :
                    at[2] <= Len(file_rows[at[1]]) /\ file_rows[at[1]][at[2]] = card})

MissingOrTwice(file_rows) == \E card \in Deck : CardCount(file_rows, card) # 1

OnlyCards(file_rows) ==
    \A i \in DOMAIN file_rows : \A j \in DOMAIN file_rows[i] : file_rows[i][j] \in Deck

\* C13: building the problem from a layout in which a card of the deck is missing
\* or written twice fails with an error and sets no initial state; a layout
\* holding every card exactly once gives the initial state with all home ranks 0,
\* no free cell used and one tableau column per (non-blank) row.
C13_LoadChecksTheDeck ==
    returned # <<>> =>
        /\ MissingOrTwice(rows) =>
               /\ returned[1] \in {"KeyError", "ValueError"}
               /\ init_state = <<>>
        /\ (~MissingOrTwice(rows) /\ OnlyCards(rows)) =>
               /\ returned[1] = "none"
               /\ init_state.home = <<0, 0, 0, 0>>
               /\ init_state.free = {}
               /\ init_state.tab = {rows[i] : i \in {k \in DOMAIN rows : rows[k] # <<>>}}
               /\ Cardinality(init_state.tab)
                      = Cardinality({k \in DOMAIN rows : rows[k] # <<>>})

C13_Witness ==
    /\ returned = <<"ValueError">>
    /\ init_state = <<>>
    /\ Cardinality({card \in Deck : CardCount(rows, card) = 0}) = 1

(***************************************************************************)
(* Properties of is_goal (specification SpecGoal)                          *)
(***************************************************************************)
\* C12: is_goal(state) holds if and only if all four home ranks of the state equal
\* MAX_RANK, whatever the free cells and the tableau hold.
C12_GoalIsAllHomeRanksMax ==
    returned # <<>> =>
        (returned[1] <=> state.home = <<MAX_RANK, MAX_RANK, MAX_RANK, MAX_RANK>>)

C12_Witness ==
    /\ returned = <<TRUE>>
    /\ state.free # {}
    /\ state.tab # {}

(***************************************************************************)
(* Properties of the heuristic (specification SpecHeuristic)               *)
(***************************************************************************)
\* the least rank among MAX_RANK and the cards of the suit of card ndx that
\* lie deeper in the column
MinimumSeen(col, ndx) ==
    Least({MAX_RANK} \cup {rank_int(col[j]) :
                              j \in {k \in 1..(ndx - 1) : suit_int(col[k]) = suit_int(col[ndx])}})

\* the cards of a state's tableau, each with its column and its place in it
TableauCards(s) == UNION {{<<col, ndx>> : ndx \in 1..Len(col)} : col \in s.tab}

NotBelowMinimum(s) ==
    {place \in TableauCards(s) :
        rank_int(place[1][place[2]]) >= MinimumSeen(place[1], place[2])}

AboveMinimum(s) ==
    {place \in TableauCards(s) :
        rank_int(place[1][place[2]]) > MinimumSeen(place[1], place[2])}

\* C21 as stated: heuristic(state) is the number of occupied free cells, plus 2 for
\* every tableau card whose rank is greater than or equal to the minimum rank seen
\* for its suit deeper in its column (seeded at the maximum rank), plus 1 for every
\* other tableau card.
C21_HeuristicCountsNotBelow ==
    returned # <<>> =>
        returned[1] = Cardinality(state.free)
                          + Cardinality(TableauCards(state))
                          + Cardinality(NotBelowMinimum(state))

\* C21 amended: 2 for every tableau card whose rank is greater than the minimum
\* rank seen for its suit deeper in its column (seeded at the maximum rank), 1 for
\* every other tableau card, plus the number of occupied free cells.
C21_HeuristicCountsAbove ==
    returned # <<>> =>
        returned[1] = Cardinality(state.free)
                          + Cardinality(TableauCards(state))
                          + Cardinality(AboveMinimum(state))

\* a free cell is occupied, one card lies above a lower card of its suit, and a
\* card of the maximum rank has no card of its suit below it
C21_Witness ==
    /\ returned # <<>>
    /\ state.free # {}
    /\ AboveMinimum(state) # {}
    /\ NotBelowMinimum(state) # AboveMinimum(state)
    /\ returned[1] > Cardinality(state.free) + Cardinality(TableauCards(state))

====
